---- MODULE Spec2Model ----
(***************************************************************************)
(* batchflow/monitor.py: ResourceMonitor (a sampler process appending the  *)
(* readings of a metric function to a manager list, and a controller that  *)
(* starts it, fetches its buffer and stops it), the alias registry          *)
(* MONITOR_ALIASES and the context manager monitor_resource.                *)
(*                                                                         *)
(* Time is an integer clock `now`; time.time() reads it.  np.linspace is    *)
(* computed on integers with floor division.  A reading of the metric       *)
(* function is a number of Readings, chosen at the call.                    *)
(***************************************************************************)
EXTENDS Integers, Sequences, FiniteSets, TLC

\* ------------------------------------------------------------------ bounds
NumMonitors == 2      \* monitor instances that can be constructed
MaxReading  == 1      \* readings of a metric function are 0..MaxReading
MaxTime     == 2      \* the clock stops advancing at MaxTime
MaxBuf      == 2      \* the sampler enters its loop while its buffer is shorter
MaxCalls    == 4      \* start and fetch calls the controller may make

Monitors == 1..NumMonitors
None     == -1        \* Python's None, for the time attributes

\* The environments a behaviour runs in: how many instances the controller
\* constructs, the readings the metric function returns, how far the clock
\* advances, how long a buffer the sampler still appends to, and how many
\* start and fetch calls are made.
\* Sessions over several monitors, readings all alike, clock at rest:
SessionConfig ==
  [instances |-> NumMonitors, readMax |-> 0, horizon |-> 0, buf |-> MaxBuf,
   calls |-> MaxCalls]
\* one monitor whose readings differ:
DataConfig ==
  [instances |-> 1, readMax |-> MaxReading, horizon |-> 1, buf |-> MaxBuf - 1,
   calls |-> MaxCalls - 1]
\* one monitor and a clock that advances:
TimeConfig ==
  [instances |-> 1, readMax |-> 0, horizon |-> MaxTime, buf |-> MaxBuf,
   calls |-> MaxCalls]

Configs == { SessionConfig, DataConfig, TimeConfig }

VARIABLES
  now,          \* the clock read by time.time()
  pc,           \* the controller's position
  cur,          \* the monitor whose method the controller executes (0: none)
  n, point, tick,   \* locals of fetch
  sess,         \* monitor_resource: the list `monitors`
  idx,          \* monitor_resource: position of the for loops in `monitors`
  raised,       \* monitor_resource: the with-block's body raised
  outcome,      \* how the controller's last call ended
  log,          \* calls that returned during the exit of the current session
  calls,        \* start and fetch calls left
  cls,          \* per monitor: its class ("None": not constructed)
  running, data, ticks, shared_list, stop_queue, process,
  start_time, prev_time, end_time,   \* per monitor: the attributes of __init__
  orphans,      \* per monitor: samplers alive that self.process no longer names
  resource,     \* the argument of the monitor_resource call being looked up
  run,          \* per monitor, history of its current run: data and ticks as
                \* start found them, how its last fetch call ended, and,
                \* while stop waits, the samples its sampler appended since
                \* stop put the signal and since the signal is visible to it
  env           \* the environment of the behaviour, one of Configs

vars == <<now, pc, cur, n, point, tick, sess, idx, raised, outcome, log, calls,
          cls, running, data, ticks, shared_list, stop_queue, process,
          start_time, prev_time, end_time, orphans, resource, run, env>>

ctlLocals == <<cur, n, point, tick>>
sessVars  == <<sess, idx, raised, log>>
\* the function's readings in this environment
Readings  == 0..env.readMax

monAttrs  == <<running, data, ticks, shared_list, stop_queue, process,
               start_time, prev_time, end_time, orphans, run>>

\* ------------------------------------------------------------ pure helpers
\* a is a prefix of b
IsPrefix(a, b) == Len(a) <= Len(b) /\ SubSeq(b, 1, Len(a)) = a

\* ticks is non-decreasing
NonDecreasing(s) == \A i \in 1..(Len(s) - 1) : s[i] <= s[i + 1]

\* Linspace running from b down to a (Linspace with a fault)
LinspaceFromEnd(a, b, num) ==
  IF num = 1 THEN <<b>>
  ELSE [i \in 1..num |-> b - ((i - 1) * (b - a)) \div (num - 1)]

\* np.linspace(a, b, num=num).tolist() for num >= 0: num evenly spaced points
\* from a to b, both included (num = 1 gives [a]); a negative num raises
\* ValueError, which the caller of Linspace decides before using it.
Linspace(a, b, num) ==
  IF num = 1 THEN <<a>>
  ELSE [i \in 1..num |-> a + ((i - 1) * (b - a)) \div (num - 1)]

\* time.time()
Time == now

\* A sampler process that has been launched and has not ended.
Alive(p) == p \in {"check", "append", "sleep"}

\* ------------------------------------------------------- the alias registry
Upper == <<"A","B","C","D","E","F","G","H","I","J","K","L","M",
           "N","O","P","Q","R","S","T","U","V","W","X","Y","Z">>
Lower == <<"a","b","c","d","e","f","g","h","i","j","k","l","m",
           "n","o","p","q","r","s","t","u","v","w","x","y","z">>

\* str.lower() of one character: A..Z go to a..z, anything else stays.
LowerChar(c) ==
  IF \E i \in 1..Len(Upper) : Upper[i] = c
    THEN Lower[CHOOSE i \in 1..Len(Upper) : Upper[i] = c]
    ELSE c

\* the string as given, lower() left out (StrLower with a fault)
StrAsGiven(s) == s

\* res.lower(), a string being the sequence of its characters
StrLower(s) == [i \in 1..Len(s) |-> LowerChar(s[i])]

Classes == {"MemoryMonitor", "CPUMonitor", "RSSMonitor", "VMSMonitor",
            "USSMonitor", "GPUMonitor", "GPUMemoryMonitor"}

\* MONITOR_ALIASES as first written: class -> list of aliases
AliasLists(c) ==
  CASE c = "MemoryMonitor" ->
         { <<"m","m","o","n","i","t","o","r">>, <<"m","e","m","o","r","y">>,
           <<"m","e","m","o","r","y","m","o","n","i","t","o","r">> }
    [] c = "CPUMonitor" ->
         { <<"c","m","o","n","i","t","o","r">>, <<"c","p","u">>,
           <<"c","p","u","m","o","n","i","t","o","r">> }
    [] c = "RSSMonitor" -> { <<"r","s","s">> }
    [] c = "VMSMonitor" -> { <<"v","m","s">> }
    [] c = "USSMonitor" -> { <<"u","s","s">> }
    [] c = "GPUMonitor" -> { <<"g","p","u">> }
    [] c = "GPUMemoryMonitor" ->
         { <<"g","p","u","_","m","e","m","o","r","y">> }

\* the keys of MONITOR_ALIASES after it is inverted: alias -> class
AliasKeys == UNION { AliasLists(c) : c \in Classes }

\* MONITOR_ALIASES.get(key, MemoryMonitor): a lookup that falls back to a
\* default class (MONITOR_ALIASES with a fault)
AliasesWithDefault(key) ==
  IF key \in AliasKeys
    THEN CHOOSE c \in Classes : key \in AliasLists(c)
    ELSE "MemoryMonitor"

\* MONITOR_ALIASES[key]; "KeyError" when key is no alias
MONITOR_ALIASES(key) ==
  IF key \in AliasKeys
    THEN CHOOSE c \in Classes : key \in AliasLists(c)
    ELSE "KeyError"

\* A selector is an alias (a string: the sequence of its characters) or an
\* already constructed monitor instance (its number).
StrSel(s) == [str |-> s, obj |-> 0]
ObjSel(m) == [str |-> <<>>, obj |-> m]

\* isinstance(res, str)
IsStr(res) == res.obj = 0

\* the class monitor_resource constructs for a string selector
LookupClass(res) == MONITOR_ALIASES(StrLower(res.str))

\* ------------------------------------------------------------------- Init
\* ResourceMonitor.__init__, for every instance before it is constructed, and
\* a controller that has called nothing yet
InitAttrs ==
  /\ now = 0
  /\ cur = 0 /\ n = 0 /\ point = 0 /\ tick = 0
  /\ sess = <<>> /\ idx = 0 /\ raised = FALSE
  /\ outcome = "none"
  /\ log = <<>>
  /\ cls = [m \in Monitors |-> "None"]
  /\ running = [m \in Monitors |-> FALSE]
  /\ data = [m \in Monitors |-> <<>>]
  /\ ticks = [m \in Monitors |-> <<>>]
  /\ shared_list = [m \in Monitors |-> <<>>]
  /\ stop_queue = [m \in Monitors |-> "None"]
  /\ process = [m \in Monitors |-> "None"]
  /\ start_time = [m \in Monitors |-> None]
  /\ prev_time = [m \in Monitors |-> None]
  /\ end_time = [m \in Monitors |-> None]
  /\ orphans = [m \in Monitors |-> 0]
  /\ run = [m \in Monitors |-> [data0 |-> <<>>, ticks0 |-> <<>>, fetch |-> "none",
                                sincePut |-> 0, sinceSeen |-> 0]]

\* the controller about to make its first call, in environment c
InitIn(c) ==
  /\ InitAttrs
  /\ pc = "idle"
  /\ resource = <<>>
  /\ env = c
  /\ calls = c.calls

Init == \E c \in Configs : InitIn(c)

\* ------------------------------------------------------- the sampler process
\* Exceptions a failing shared_list.append raises in the sampler, and the
\* ones the except clause of endless_repeat names.
CommErrors == {"BrokenPipeError", "ConnectionResetError"}

\* an except clause that names BrokenPipeError only (CaughtErrors with a fault)
CaughtBrokenPipeOnly == {"BrokenPipeError"}

CaughtErrors == {"BrokenPipeError", "ConnectionResetError"}

\* a loop condition that is always true (SamplerCheck with a fault)
SamplerCheckIgnoresSignal(m) ==
  /\ process[m] = "check"
  /\ Len(shared_list[m]) < env.buf
  /\ process' = [process EXCEPT ![m] = "append"]
  /\ UNCHANGED <<now, pc, ctlLocals, sessVars, outcome, calls, cls, running, data,
                 ticks, shared_list, stop_queue, start_time, prev_time, end_time,
                 orphans, resource, run, env>>

\* while stop_queue.empty(): the loop condition.  The signal is visible to the
\* sampler once the queue's feeder has written it to the pipe.
SamplerCheck(m) ==
  /\ process[m] = "check"
  /\ IF stop_queue[m] = "piped"
       THEN process' = [process EXCEPT ![m] = "exited"]
       ELSE /\ Len(shared_list[m]) < env.buf
            /\ process' = [process EXCEPT ![m] = "append"]
  /\ UNCHANGED <<now, pc, ctlLocals, sessVars, outcome, calls, cls, running, data,
                 ticks, shared_list, stop_queue, start_time, prev_time, end_time,
                 orphans, resource, run, env>>

\* shared_list.append(function(**kwargs)) with the manager reachable
SamplerAppend(m) ==
  /\ process[m] = "append"
  /\ pc # "exited"
  /\ \E r \in Readings :
       shared_list' = [shared_list EXCEPT ![m] = Append(@, r)]
  /\ process' = [process EXCEPT ![m] = "sleep"]
  /\ run' = [run EXCEPT
               ![m].sincePut = IF stop_queue[m] \in {"put", "piped"} THEN @ + 1 ELSE @,
               ![m].sinceSeen = IF stop_queue[m] = "piped" THEN @ + 1 ELSE @]
  /\ UNCHANGED <<now, pc, ctlLocals, sessVars, outcome, calls, cls, running, data,
                 ticks, stop_queue, start_time, prev_time, end_time, orphans,
                 resource, env>>

\* the try/except around the append: the error e is discarded when the
\* except clause names it, otherwise it ends the process
HandleAppendError(m, e) ==
  IF e \in CaughtErrors
    THEN process' = [process EXCEPT ![m] = "sleep"]
    ELSE process' = [process EXCEPT ![m] = "crashed"]

\* shared_list.append(...) after the controller (and with it the manager)
\* has exited: the append raises a communication error
SamplerAppendFail(m) ==
  /\ process[m] = "append"
  /\ pc = "exited"
  /\ \E e \in CommErrors : HandleAppendError(m, e)
  /\ UNCHANGED <<now, pc, ctlLocals, sessVars, outcome, calls, cls, running, data,
                 ticks, shared_list, stop_queue, start_time, prev_time, end_time,
                 orphans, resource, run, env>>

\* a loop that tests the signal before its first iteration only (SamplerWake
\* with a fault)
SamplerWakeSkipsCheck(m) ==
  /\ process[m] = "sleep"
  /\ Len(shared_list[m]) < env.buf
  /\ process' = [process EXCEPT ![m] = "append"]
  /\ UNCHANGED <<now, pc, ctlLocals, sessVars, outcome, calls, cls, running, data,
                 ticks, shared_list, stop_queue, start_time, prev_time, end_time,
                 orphans, resource, run, env>>

\* time.sleep(frequency) returns
SamplerWake(m) ==
  /\ process[m] = "sleep"
  /\ process' = [process EXCEPT ![m] = "check"]
  /\ UNCHANGED <<now, pc, ctlLocals, sessVars, outcome, calls, cls, running, data,
                 ticks, shared_list, stop_queue, start_time, prev_time, end_time,
                 orphans, resource, run, env>>

\* multiprocessing.Queue: the feeder thread writes the item put by stop to the
\* pipe, from when on stop_queue.empty() is False in the sampler
QueueFeed(m) ==
  /\ stop_queue[m] = "put"
  /\ stop_queue' = [stop_queue EXCEPT ![m] = "piped"]
  /\ UNCHANGED <<now, pc, ctlLocals, sessVars, outcome, calls, cls, running, data,
                 ticks, shared_list, process, start_time, prev_time, end_time,
                 orphans, resource, run, env>>

\* --------------------------------------------------------------- the clock
Tick ==
  /\ now < env.horizon
  /\ now' = now + 1
  /\ UNCHANGED <<pc, ctlLocals, sessVars, outcome, calls, cls, monAttrs, resource, env>>

\* ---------------------------------------------------- ResourceMonitor methods
\* ResourceMonitor(...) called by the user: the next free instance.  The class
\* decides the metric function only; the user's instances are MemoryMonitors.
NextFree == CHOOSE m \in Monitors :
              cls[m] = "None" /\ \A k \in Monitors : k < m => cls[k] # "None"

Constructed == { m \in Monitors : cls[m] # "None" }

Construct ==
  /\ pc = "idle"
  /\ Cardinality(Constructed) < env.instances
  /\ cls' = [cls EXCEPT ![NextFree] = "MemoryMonitor"]
  /\ outcome' = "ok"
  /\ UNCHANGED <<now, pc, ctlLocals, sessVars, calls, monAttrs, resource, env>>

\* start(self): lines 69-79
DoStart(m) ==
  /\ running' = [running EXCEPT ![m] = TRUE]
  /\ shared_list' = [shared_list EXCEPT ![m] = <<>>]
  /\ stop_queue' = [stop_queue EXCEPT ![m] = "empty"]
  /\ start_time' = [start_time EXCEPT ![m] = Time]
  /\ prev_time' = [prev_time EXCEPT ![m] = Time]
  /\ process' = [process EXCEPT ![m] = "check"]
  /\ orphans' = [orphans EXCEPT ![m] = IF Alive(process[m]) THEN @ + 1 ELSE @]
  /\ run' = [run EXCEPT ![m] = [data0 |-> data[m], ticks0 |-> ticks[m],
                                fetch |-> "none", sincePut |-> 0, sinceSeen |-> 0]]
  /\ UNCHANGED <<data, ticks, end_time>>

Start(m) ==
  /\ pc = "idle"
  /\ cls[m] # "None"
  /\ calls > 0
  /\ calls' = calls - 1
  /\ DoStart(m)
  /\ outcome' = "ok"
  /\ UNCHANGED <<now, pc, ctlLocals, sessVars, cls, resource, env>>

\* a copy of the new part of the buffer only, self.shared_list[n:] (FetchCopy
\* with a fault)
FetchCopyOnlyNew(m) ==
  /\ n' = Len(data[m])
  /\ data' = [data EXCEPT ![m] =
               SubSeq(shared_list[m], Len(data[m]) + 1, Len(shared_list[m]))]
  /\ end_time' = [end_time EXCEPT ![m] = Time]
  /\ cur' = m
  /\ pc' = "f_sample"
  /\ UNCHANGED <<point, tick, running, ticks, shared_list, stop_queue, process,
                 start_time, prev_time, orphans, run>>

\* fetch(self), lines 83-86: n = len(self.data); self.data = self.shared_list[:]
\* self.end_time = time.time()
FetchCopy(m) ==
  /\ n' = Len(data[m])
  /\ data' = [data EXCEPT ![m] = shared_list[m]]
  /\ end_time' = [end_time EXCEPT ![m] = Time]
  /\ cur' = m
  /\ pc' = "f_sample"
  /\ UNCHANGED <<point, tick, running, ticks, shared_list, stop_queue, process,
                 start_time, prev_time, orphans, run>>

\* m.fetch() with a shared_list that __init__ had set to an empty list: the
\* slice never raises (Fetch with a fault)
FetchOfEmptyList(m) ==
  /\ pc = "idle"
  /\ cls[m] # "None"
  /\ calls > 0
  /\ calls' = calls - 1
  /\ FetchCopy(m)
  /\ outcome' = "running"
  /\ UNCHANGED <<now, sessVars, cls, resource, env>>

\* m.fetch() called by the user; on an instance never started shared_list is
\* None and the slice raises TypeError
Fetch(m) ==
  /\ pc = "idle"
  /\ cls[m] # "None"
  /\ calls > 0
  /\ calls' = calls - 1
  /\ IF stop_queue[m] = "None"
       THEN /\ outcome' = "TypeError"
            /\ UNCHANGED <<pc, ctlLocals, monAttrs>>
       ELSE /\ FetchCopy(m)
            /\ outcome' = "running"
  /\ UNCHANGED <<now, sessVars, cls, resource, env>>

\* the number of timestamps line 95 asks np.linspace for
NumNew(m) == Len(data[m]) - n

\* fetch, lines 89-96: point = self.function(...); tick = time.time();
\* self.ticks.extend(np.linspace(...)); self.data.append(point).
\* np.linspace raises ValueError for a negative num; the error leaves fetch
\* and, in a session, the finally block.
FetchSample ==
  /\ pc = "f_sample"
  /\ \E r \in Readings :
       IF NumNew(cur) < 0
         THEN /\ outcome' = "ValueError"
              /\ pc' = IF idx > 0 THEN "with_exited" ELSE "idle"
              /\ cur' = 0 /\ n' = 0 /\ point' = 0 /\ tick' = 0
              /\ run' = [run EXCEPT ![cur].fetch = "error"]
              /\ UNCHANGED <<data, ticks>>
         ELSE /\ point' = r
              /\ tick' = Time
              /\ ticks' = [ticks EXCEPT ![cur] =
                     @ \o Linspace(prev_time[cur], end_time[cur], NumNew(cur))]
              /\ data' = [data EXCEPT ![cur] = Append(@, r)]
              /\ pc' = "f_append"
              /\ UNCHANGED <<cur, n, outcome, run>>
  /\ UNCHANGED <<now, sessVars, calls, cls, running, shared_list,
                 stop_queue, process, start_time, prev_time, end_time, orphans,
                 resource, env>>

\* the end of fetch without self.shared_list.append(point) (FetchAppend with a
\* fault)
FetchAppendLocalOnly ==
  /\ pc = "f_append"
  /\ ticks' = [ticks EXCEPT ![cur] = Append(@, tick)]
  /\ prev_time' = [prev_time EXCEPT ![cur] = Time]
  /\ cur' = 0 /\ n' = 0 /\ point' = 0 /\ tick' = 0
  /\ run' = [run EXCEPT ![cur].fetch = "ok"]
  /\ IF idx > 0
       THEN /\ log' = Append(log, <<"fetch", cur>>)
            /\ pc' = "x_stop"
            /\ UNCHANGED outcome
       ELSE /\ pc' = "idle"
            /\ outcome' = "ok"
            /\ UNCHANGED log
  /\ UNCHANGED <<now, sess, idx, raised, calls, cls, running, data, shared_list,
                 stop_queue, process, start_time, end_time, orphans, resource, env>>

\* fetch, lines 97-100: self.shared_list.append(point); self.ticks.append(tick);
\* self.prev_time = time.time()
FetchAppend ==
  /\ pc = "f_append"
  /\ shared_list' = [shared_list EXCEPT ![cur] = Append(@, point)]
  /\ ticks' = [ticks EXCEPT ![cur] = Append(@, tick)]
  /\ prev_time' = [prev_time EXCEPT ![cur] = Time]
  /\ cur' = 0 /\ n' = 0 /\ point' = 0 /\ tick' = 0
  /\ run' = [run EXCEPT ![cur].fetch = "ok"]
  /\ IF idx > 0
       THEN /\ log' = Append(log, <<"fetch", cur>>)
            /\ pc' = "x_stop"
            /\ UNCHANGED outcome
       ELSE /\ pc' = "idle"
            /\ outcome' = "ok"
            /\ UNCHANGED log
  /\ UNCHANGED <<now, sess, idx, raised, calls, cls, running, data,
                 stop_queue, process, start_time, end_time, orphans, resource, env>>

\* put on a stop queue that all instances share, a class attribute
\* (StopPut with a fault)
StopPutShared(m) ==
  /\ stop_queue' = [k \in Monitors |->
                     IF stop_queue[k] \in {"None", "piped"} THEN stop_queue[k]
                     ELSE "put"]
  /\ cur' = m
  /\ pc' = "join"

\* stop(self), line 104: self.stop_queue.put(True)
StopPut(m) ==
  /\ stop_queue' = [stop_queue EXCEPT ![m] = IF @ = "piped" THEN "piped" ELSE "put"]
  /\ cur' = m
  /\ pc' = "join"

\* m.stop() called by the user; on an instance never started stop_queue is
\* None and put raises AttributeError
Stop(m) ==
  /\ pc = "idle"
  /\ cls[m] # "None"
  /\ IF stop_queue[m] = "None"
       THEN /\ outcome' = "AttributeError"
            /\ UNCHANGED <<pc, cur, stop_queue>>
       ELSE /\ StopPut(m)
            /\ outcome' = "running"
  /\ UNCHANGED <<now, n, point, tick, sessVars, calls, cls, running, data, ticks,
                 shared_list, process, start_time, prev_time, end_time, orphans,
                 resource, run, env>>

\* stop, lines 105-106: self.process.join() returns when the sampler process
\* has ended; self.running = False
StopJoin ==
  /\ pc = "join"
  /\ ~Alive(process[cur])
  /\ running' = [running EXCEPT ![cur] = FALSE]
  /\ cur' = 0
  /\ IF idx > 0
       THEN /\ log' = Append(log, <<"stop", cur>>)
            /\ IF idx < Len(sess)
                 THEN /\ idx' = idx + 1
                      /\ pc' = "x_fetch"
                      /\ UNCHANGED outcome
                 ELSE /\ pc' = "with_exited"
                      /\ outcome' = IF raised THEN "BodyError" ELSE "ok"
                      /\ UNCHANGED idx
       ELSE /\ pc' = "idle"
            /\ outcome' = "ok"
            /\ UNCHANGED <<idx, log>>
  /\ run' = [run EXCEPT ![cur].sincePut = 0, ![cur].sinceSeen = 0]
  /\ UNCHANGED <<now, n, point, tick, sess, raised, calls, cls, data, ticks,
                 shared_list, stop_queue, process, start_time, prev_time, end_time,
                 orphans, resource, env>>

\* the controller process exits: its managers go with it
ControllerExit ==
  /\ pc = "idle"
  /\ pc' = "exited"
  /\ UNCHANGED <<now, ctlLocals, sessVars, outcome, calls, cls, monAttrs, resource, env>>

\* ------------------------------------------------------------ monitor_resource
\* Instances not constructed yet, and the k-th of them: the instance a
\* constructor call returns.
FreeIds == { m \in Monitors : cls[m] = "None" }
KthFree(k) == CHOOSE m \in FreeIds : Cardinality({ j \in FreeIds : j < m }) = k - 1

\* the string selectors among the first i of res
StrCount(res, i) == Cardinality({ j \in 1..i : IsStr(res[j]) })

\* the strings and lists of selectors the controller passes to monitor_resource
\* ("xpu" is no alias)
SessionStrings == { <<"C","p","u">>, <<"x","p","u">> }
Selectors == { StrSel(s) : s \in SessionStrings } \cup { ObjSel(m) : m \in Monitors }
SessionResources ==
  { <<a>> : a \in Selectors } \cup
  { <<a, b>> : a \in Selectors, b \in Selectors }

\* with monitor_resource(res): the call.  A resource that is no list is the
\* one-element list of line 227.  Instances passed in are constructed and
\* distinct.
SessionCall(res) ==
  /\ pc = "idle"
  /\ \A i \in 1..Len(res) : ~IsStr(res[i]) => cls[res[i].obj] # "None"
  /\ \A i, j \in 1..Len(res) :
       (i # j /\ ~IsStr(res[i]) /\ ~IsStr(res[j])) => res[i].obj # res[j].obj
  /\ Cardinality(Constructed) + StrCount(res, Len(res)) <= env.instances
  /\ calls >= 2 * Len(res)
  /\ calls' = calls - 2 * Len(res)
  /\ resource' = res
  /\ pc' = "lookup"
  /\ outcome' = "running"
  /\ UNCHANGED <<now, ctlLocals, sessVars, cls, monAttrs, env>>

\* lines 228-229: the list `monitors`.  A string selector constructs an
\* instance of the class MONITOR_ALIASES holds for its lower-case form; a
\* string that is no alias raises KeyError out of monitor_resource, before
\* the try block.
SessionLookup ==
  /\ pc = "lookup"
  /\ IF \E i \in 1..Len(resource) :
          IsStr(resource[i]) /\ LookupClass(resource[i]) = "KeyError"
       THEN /\ outcome' = "KeyError"
            /\ pc' = "idle"
            /\ resource' = <<>>
            /\ UNCHANGED <<sess, idx, cls>>
       ELSE /\ sess' = [i \in 1..Len(resource) |->
                         IF IsStr(resource[i])
                           THEN KthFree(StrCount(resource, i))
                           ELSE resource[i].obj]
            /\ cls' = [m \in Monitors |->
                        IF \E i \in 1..Len(resource) :
                             IsStr(resource[i]) /\ KthFree(StrCount(resource, i)) = m
                          THEN LookupClass(resource[
                                 CHOOSE i \in 1..Len(resource) :
                                   IsStr(resource[i])
                                   /\ KthFree(StrCount(resource, i)) = m])
                          ELSE cls[m]]
            /\ idx' = 1
            /\ pc' = "s_start"
            /\ UNCHANGED <<outcome, resource>>
  /\ UNCHANGED <<now, ctlLocals, raised, log, calls, monAttrs, env>>

\* lines 232-233: for monitor in monitors: monitor.start(); after the last
\* one, line 234 yields to the with-block's body
SessionStart ==
  /\ pc = "s_start"
  /\ DoStart(sess[idx])
  /\ IF idx < Len(sess)
       THEN idx' = idx + 1 /\ UNCHANGED pc
       ELSE idx' = 0 /\ pc' = "body"
  /\ UNCHANGED <<now, ctlLocals, sess, raised, outcome, log, calls, cls, resource, env>>

\* the with-block's body ends, by returning or by raising: control enters
\* the finally block, line 235
BodyEnd(err) ==
  /\ pc = "body"
  /\ raised' = err
  /\ idx' = 1
  /\ log' = <<>>
  /\ pc' = "x_fetch"
  /\ UNCHANGED <<now, ctlLocals, sess, outcome, calls, cls, monAttrs, resource, env>>

\* line 237: monitor.fetch()
SessionFetch ==
  /\ pc = "x_fetch"
  /\ FetchCopy(sess[idx])
  /\ UNCHANGED <<now, sessVars, outcome, calls, cls, resource, env>>

\* line 238: monitor.stop()
SessionStop ==
  /\ pc = "x_stop"
  /\ StopPut(sess[idx])
  /\ UNCHANGED <<now, n, point, tick, sessVars, outcome, calls, cls, running, data,
                 ticks, shared_list, process, start_time, prev_time, end_time,
                 orphans, resource, run, env>>

\* the with statement is over: control is back in the caller
SessionReturn ==
  /\ pc = "with_exited"
  /\ pc' = "idle"
  /\ sess' = <<>> /\ idx' = 0 /\ raised' = FALSE /\ log' = <<>>
  /\ resource' = <<>>
  /\ UNCHANGED <<now, ctlLocals, outcome, calls, cls, monAttrs, env>>

\* -------------------------------------------------------------- specifications
Next ==
  \/ Tick
  \/ Construct
  \/ \E m \in Monitors : Start(m)
  \/ \E m \in Monitors : Fetch(m)
  \/ FetchSample
  \/ FetchAppend
  \/ \E m \in Monitors : Stop(m)
  \/ StopJoin
  \/ \E res \in SessionResources : SessionCall(res)
  \/ SessionLookup
  \/ SessionStart
  \/ \E err \in BOOLEAN : BodyEnd(err)
  \/ SessionFetch
  \/ SessionStop
  \/ SessionReturn
  \/ ControllerExit
  \/ \E m \in Monitors : SamplerCheck(m)
  \/ \E m \in Monitors : SamplerAppend(m)
  \/ \E m \in Monitors : SamplerAppendFail(m)
  \/ \E m \in Monitors : SamplerWake(m)
  \/ \E m \in Monitors : QueueFeed(m)

Spec == Init /\ [][Next]_vars

\* one monitor whose readings differ
DataSpec == InitIn(DataConfig) /\ [][Next]_vars

\* one monitor and a clock that advances
TimeSpec == InitIn(TimeConfig) /\ [][Next]_vars

\* sessions over two monitors, with a clock that advances once and samplers
\* that append to an empty buffer only
PairConfig ==
  [instances |-> 2, readMax |-> 0, horizon |-> 1, buf |-> 1, calls |-> MaxCalls]

PairSpec == InitIn(PairConfig) /\ [][Next]_vars

\* Spec with the scheduling the operating system gives: a sampler process
\* that can take a step takes it, the feeder thread of the queue runs, and a
\* join whose process has ended returns.
FairConfig ==
  [instances |-> 1, readMax |-> 0, horizon |-> 1, buf |-> MaxBuf - 1,
   calls |-> MaxCalls - 1]

FairInit == InitIn(FairConfig)

Fairness ==
  /\ WF_vars(StopJoin)
  /\ \A m \in Monitors :
       /\ WF_vars(SamplerCheck(m))
       /\ WF_vars(SamplerAppend(m))
       /\ WF_vars(SamplerWake(m))
       /\ WF_vars(QueueFeed(m))

FairSpec == FairInit /\ [][Next]_vars /\ Fairness

\* ------------------------------------------------- the alias lookup by itself
\* the upper-case form of a lower-case letter; other characters stay
UpperChar(c) ==
  IF \E i \in 1..Len(Lower) : Lower[i] = c
    THEN Upper[CHOOSE i \in 1..Len(Lower) : Lower[i] = c]
    ELSE c

\* every spelling of the string a in upper- and lower-case letters
RECURSIVE Variants(_)
Variants(a) ==
  IF a = <<>> THEN { <<>> }
  ELSE { <<c>> \o v : c \in { Head(a), UpperChar(Head(a)) },
                      v \in Variants(Tail(a)) }

\* what the documentation says each short name selects
Documented ==
  { << <<"m","m","o","n","i","t","o","r">>, "MemoryMonitor" >>,
    << <<"m","e","m","o","r","y">>, "MemoryMonitor" >>,
    << <<"m","e","m","o","r","y","m","o","n","i","t","o","r">>, "MemoryMonitor" >>,
    << <<"c","m","o","n","i","t","o","r">>, "CPUMonitor" >>,
    << <<"c","p","u">>, "CPUMonitor" >>,
    << <<"c","p","u","m","o","n","i","t","o","r">>, "CPUMonitor" >>,
    << <<"r","s","s">>, "RSSMonitor" >>,
    << <<"v","m","s">>, "VMSMonitor" >>,
    << <<"u","s","s">>, "USSMonitor" >>,
    << <<"g","p","u">>, "GPUMonitor" >>,
    << <<"g","p","u","_","m","e","m","o","r","y">>, "GPUMemoryMonitor" >> }

\* v spells a, letter by letter, in upper or lower case
SameSpelling(v, a) ==
  Len(v) = Len(a) /\ \A i \in 1..Len(a) : v[i] \in { a[i], UpperChar(a[i]) }

AliasConfig == [instances |-> 1, readMax |-> 0, horizon |-> 0, buf |-> 0, calls |-> 0]

\* monitor_resource called with one string, a spelling of a documented short
\* name, and about to build its list of monitors
AliasInit ==
  /\ InitAttrs
  /\ pc = "lookup"
  /\ env = AliasConfig
  /\ calls = 0
  /\ resource \in { <<StrSel(v)>> : v \in UNION { Variants(d[1]) : d \in Documented } }

AliasNext == SessionLookup

AliasSpec == AliasInit /\ [][AliasNext]_vars


\* ------------------------------------------------------------------ claims
\* the controller is inside fetch
InFetch == pc \in {"f_sample", "f_append"}

\* the last element of a non-empty sequence, and the sequence without it
Last(q) == q[Len(q)]
Front(q) == SubSeq(q, 1, Len(q) - 1)

\* C1: when the with-block of a scoped session has exited, normally or by an
\* error, every monitor of the session is stopped: its running flag is False
\* and its sampler process has exited.
C1_SessionLeavesStopped ==
  pc = "with_exited" =>
    \A i \in 1..Len(sess) :
      ~running[sess[i]] /\ process[sess[i]] = "exited"

\* how often a call that returned is in the log of the session's exit
Count(ev) == Cardinality({ k \in 1..Len(log) : log[k] = ev })

\* C2: on any exit path of a scoped session every monitor of the session is
\* fetched exactly once and stopped exactly once, its fetch before its stop.
C2_DrainedAndStoppedOnce ==
  pc = "with_exited" =>
    \A i \in 1..Len(sess) :
      /\ Count(<<"fetch", sess[i]>>) = 1
      /\ Count(<<"stop", sess[i]>>) = 1
      /\ \E j, k \in 1..Len(log) :
           j < k /\ log[j] = <<"fetch", sess[i]>> /\ log[k] = <<"stop", sess[i]>>

\* C3: after every call of fetch on a started monitor, whatever start, fetch
\* and stop calls came before, data and ticks have the same length.
C3_EqualLengthAfterFetch ==
  [][ (InFetch /\ ~InFetch') => Len(data'[cur]) = Len(ticks'[cur]) ]_vars

\* C4: the Series persists across runs: when a fetch of a run ends, data and
\* ticks as the run's start found them are prefixes of data and ticks.
C4_SeriesPersists ==
  [][ (InFetch /\ ~InFetch') =>
        /\ IsPrefix(run[cur].data0, data'[cur])
        /\ IsPrefix(run[cur].ticks0, ticks'[cur]) ]_vars

\* the step of line 85 in a fetch of m that is not the first fetch of m's run
LaterCopy(m) ==
  pc # "f_sample" /\ pc' = "f_sample" /\ cur' = m /\ run[m].fetch # "none"

\* C5, as claimed: for two successive fetches of one run, data after the
\* earlier fetch is a prefix of data after the later fetch, and likewise
\* ticks.  (The later fetch only appends to its copy, which is at least as
\* long as data was, so data is a prefix of the copy or of neither.)
C5_FetchedDataIsPrefix ==
  /\ [][ \A m \in Monitors : LaterCopy(m) => IsPrefix(data[m], data'[m]) ]_vars
  /\ [][ \A m \in Monitors : IsPrefix(ticks[m], ticks'[m]) ]_vars

\* the buffer copy the last fetch of m's run built data on
Copied(m) == IF run[m].fetch = "ok" THEN Front(data[m]) ELSE data[m]

\* C5, amended: for two successive fetches of one run, the buffer copy the
\* earlier fetch built data on (data after it, without the synchronous sample
\* it appended) is a prefix of data after the later fetch, and the synchronous
\* sample is still in data, at its old position or a later one; ticks after
\* the earlier fetch is a prefix of ticks after the later fetch.
C5_CopyIsPrefix ==
  /\ [][ \A m \in Monitors : LaterCopy(m) =>
           /\ IsPrefix(Copied(m), data'[m])
           /\ run[m].fetch = "ok" =>
                \E k \in Len(data[m])..Len(data'[m]) : data'[m][k] = Last(data[m])
       ]_vars
  /\ [][ \A m \in Monitors : IsPrefix(ticks[m], ticks'[m]) ]_vars

\* C5 witness: the later of two fetches of one run has copied a buffer in
\* which the sampler's samples come before the earlier synchronous sample.
C5_Witness ==
  /\ pc = "f_sample"
  /\ run[cur].fetch = "ok"
  /\ n >= 1
  /\ Len(data[cur]) > n
  /\ \E k \in (n + 1)..Len(data[cur]) : data[cur][k] # data[cur][n]

\* C6: with a clock that never goes backwards ticks is non-decreasing: the
\* timestamps a fetch interpolates lie between prev_time and end_time, the
\* timestamp of the synchronous sample is not earlier, and outside fetch
\* prev_time, where the next fetch or run begins, is not earlier than the last
\* timestamp.
C6_TicksNonDecreasing ==
  \A m \in Monitors :
    /\ NonDecreasing(ticks[m])
    /\ ticks[m] # <<>> => Last(ticks[m]) <= now
    /\ (ticks[m] # <<>> /\ ~(InFetch /\ cur = m) /\ prev_time[m] # None)
         => Last(ticks[m]) <= prev_time[m]
    /\ (pc = "f_append" /\ cur = m) =>
         /\ \A i \in (Len(ticks[m]) - (Len(data[m]) - 1 - n) + 1)..Len(ticks[m]) :
              prev_time[m] <= ticks[m][i] /\ ticks[m][i] <= end_time[m]
         /\ end_time[m] <= tick
         /\ ticks[m] # <<>> => Last(ticks[m]) <= tick

\* C6 witness: a second run of a monitor has fetched, and its timestamps
\* span more than one clock value.
C6_Witness ==
  \E m \in Monitors :
    /\ run[m].ticks0 # <<>>
    /\ Len(ticks[m]) > Len(run[m].ticks0) + 1
    /\ ticks[m][1] < Last(ticks[m])
    /\ ~InFetch

\* C7: stop puts the stop signal and waits; under fair scheduling the sampler
\* observes the signal and exits, so stop returns, and when it returns the
\* sampler process has exited and the running flag is False.
C7_StopReturns ==
  /\ [](pc = "join" => stop_queue[cur] \in {"put", "piped"})
  /\ (pc = "join") ~> (pc # "join")
  /\ [][ (pc = "join" /\ pc' # "join") =>
           process'[cur] = "exited" /\ ~running'[cur] ]_vars

\* C7 witness: stop has returned on a monitor whose sampler had appended.
C7_Witness ==
  \E m \in Monitors :
    /\ pc = "idle" /\ outcome = "ok"
    /\ process[m] = "exited" /\ ~running[m]
    /\ stop_queue[m] = "piped"
    /\ shared_list[m] # <<>>

\* C8: the sampler loop ends only by observing the stop signal, and an append
\* that fails with a communication error adds nothing to the shared buffer
\* and lets the loop go on to its sleep and, from there, to the next check.
C8_SamplerSurvivesCommErrors ==
  [][ \A m \in Monitors :
        /\ (Alive(process[m]) /\ ~Alive(process'[m])) =>
              /\ process[m] = "check" /\ stop_queue[m] = "piped"
              /\ process'[m] = "exited"
        /\ (pc = "exited" /\ process[m] = "append" /\ process'[m] # "append") =>
              shared_list'[m] = shared_list[m] /\ process'[m] = "sleep"
        /\ (process[m] = "sleep" /\ process'[m] # "sleep") => process'[m] = "check"
    ]_vars

\* C8 witness: a sampler sleeps after an append that added nothing, the
\* controller having exited.
C8_Witness ==
  \E m \in Monitors :
    /\ pc = "exited"
    /\ process[m] = "sleep"
    /\ shared_list[m] = <<>>
    /\ stop_queue[m] = "empty"

\* C9: for every documented short name and every upper/lower-case spelling
\* of it, the session constructs one monitor, of the class documented for
\* the name; the lookup does not fail.
C9_AliasLookup ==
  pc # "lookup" =>
    /\ pc = "s_start"
    /\ outcome # "KeyError"
    /\ Len(sess) = 1
    /\ \E d \in Documented :
         SameSpelling(resource[1].str, d[1]) /\ cls[sess[1]] = d[2]

\* C9 witness: a spelling with upper-case letters has been looked up.
C9_Witness ==
  /\ pc = "s_start"
  /\ resource[1].str = <<"G","p","U","_","m","E","m","o","r","Y">>
  /\ cls[sess[1]] = "GPUMemoryMonitor"

\* the samples of the current buffer that earlier fetches of the run have
\* put into data, while the controller is at line 89 of a fetch
Seen == IF run[cur].fetch = "none" THEN 0 ELSE n

\* C10: a successful fetch sets data to the shared buffer as copied followed
\* by one synchronous sample, appends that sample to the shared buffer, and
\* adds to ticks one timestamp per newly observed sample and one for the
\* synchronous sample.
C10_FetchAddsCopyAndOneSample ==
  [][ \A m \in Monitors :
        /\ (~InFetch /\ pc' = "f_sample" /\ cur' = m) =>
              data'[m] = shared_list[m]
        /\ (pc = "f_sample" /\ pc' = "f_append" /\ cur = m) =>
              /\ data'[m] = Append(data[m], point')
              /\ Len(ticks'[m]) = Len(ticks[m]) + (Len(data[m]) - Seen)
        /\ (pc = "f_append" /\ pc' # "f_append" /\ cur = m) =>
              /\ shared_list'[m] = Append(shared_list[m], point)
              /\ data'[m] = data[m] /\ Last(data[m]) = point
              /\ Len(ticks'[m]) = Len(ticks[m]) + 1
    ]_vars

\* how often the value v occurs in the sequence q
Occurrences(q, v) == Cardinality({ k \in 1..Len(q) : q[k] = v })

\* every element of a is in b, as often as it is in a
ContainedIn(a, b) ==
  \A k \in 1..Len(a) : Occurrences(a, a[k]) <= Occurrences(b, a[k])

\* C11: no sample is lost by a scoped session: when the session has exited,
\* everything in the shared buffer of each of its monitors (the samples its
\* sampler appended among them) is contained in the monitor's data.
C11_NoSampleLost ==
  pc = "with_exited" =>
    \A i \in 1..Len(sess) : ContainedIn(shared_list[sess[i]], data[sess[i]])

\* the sampler processes launched by m that are alive
AliveSamplers(m) == orphans[m] + (IF Alive(process[m]) THEN 1 ELSE 0)

\* C12: after any sequence of start, fetch and stop calls on a monitor at most
\* one sampler process launched by it is alive, and from the return of a stop
\* to the next start none is.
C12_AtMostOneSampler ==
  \A m \in Monitors :
    /\ AliveSamplers(m) <= 1
    /\ (stop_queue[m] # "None" /\ ~running[m]) => AliveSamplers(m) = 0

\* C13, as claimed: once stop has put the stop signal, the sampler appends at
\* most one further sample to the shared buffer before it exits.
C13_OneSampleAfterPut ==
  \A m \in Monitors : run[m].sincePut <= 1

\* C13, amended: the sampler tests the signal before every iteration, and
\* once the signal is visible to it (stop_queue.empty() is False in the
\* sampler process) it appends at most one further sample, that of the
\* iteration in progress, and exits at its next test.
C13_OneSampleAfterSeen ==
  /\ [](\A m \in Monitors : run[m].sinceSeen <= 1)
  /\ [][ \A m \in Monitors :
           /\ (process[m] # "append" /\ process'[m] = "append") =>
                process[m] = "check" /\ stop_queue[m] # "piped"
           /\ (process[m] = "check" /\ stop_queue[m] = "piped"
                 /\ process'[m] # "check") => process'[m] = "exited"
       ]_vars

\* C13 witness: stop waits for a sampler that has exited after two samples
\* appended since the signal was put, one of them since the signal was visible.
C13_Witness ==
  \E m \in Monitors :
    /\ pc = "join" /\ cur = m
    /\ process[m] = "exited"
    /\ run[m].sincePut = 2
    /\ run[m].sinceSeen = 1

\* m is in a run that start began with data empty
StartedEmpty(m) == stop_queue[m] # "None" /\ run[m].data0 = <<>>

\* C14: in a run started with data empty, whenever a fetch begins everything
\* in data is also in the shared buffer, which is at least as long; the
\* buffer only grows during the run; so the number of timestamps fetch
\* interpolates, len(copy) - len(previous data), is never negative and no
\* fetch of the run ends in an error.
C14_BufferCoversData ==
  /\ [](\A m \in Monitors : StartedEmpty(m) =>
          /\ ~(InFetch /\ cur = m) =>
               /\ Len(data[m]) <= Len(shared_list[m])
               /\ ContainedIn(data[m], shared_list[m])
          /\ (pc = "f_sample" /\ cur = m) => NumNew(m) >= 0
          /\ run[m].fetch # "error")
  /\ [][ \A m \in Monitors :
           shared_list'[m] # <<>> => IsPrefix(shared_list[m], shared_list'[m])
       ]_vars

\* C14 witness: the second fetch of a run started with data empty has copied
\* a buffer longer than data was.
C14_Witness ==
  /\ pc = "f_sample"
  /\ StartedEmpty(cur)
  /\ run[cur].fetch = "ok"
  /\ n >= 1
  /\ NumNew(cur) >= 1

\* m is constructed and start was never called on it
NeverStarted(m) == cls[m] # "None" /\ stop_queue[m] = "None"

\* the errors of a call on attributes that are still None
NoneErrors == {"TypeError", "AttributeError"}

\* C15: fetch or stop on a monitor never started ends in an error and changes
\* nothing: the controller never gets beyond the first access of the None
\* attribute, the call that ends in the error leaves every attribute of
\* every monitor as it was, and a monitor never started has data and ticks
\* empty, running False, no sample taken and no process launched.
C15_NeverStartedUntouched ==
  /\ [](\A m \in Monitors : NeverStarted(m) =>
          /\ cur # m
          /\ data[m] = <<>> /\ ticks[m] = <<>> /\ ~running[m]
          /\ shared_list[m] = <<>> /\ process[m] = "None" /\ orphans[m] = 0
          /\ start_time[m] = None /\ prev_time[m] = None /\ end_time[m] = None)
  /\ [][ (pc = "idle" /\ outcome' \in NoneErrors
            /\ (outcome' # outcome \/ calls' # calls)) =>
           /\ pc' = "idle"
           /\ \E m \in Monitors : NeverStarted(m)
           /\ UNCHANGED <<data, ticks, running, shared_list, stop_queue, process,
                          start_time, prev_time, end_time, orphans, cls, cur>>
       ]_vars

\* C15 witness: on a monitor never started, a fetch and then a stop have ended
\* in their errors.
C15_Witness ==
  \E m \in Monitors :
    /\ NeverStarted(m)
    /\ Constructed = {m}
    /\ calls < env.calls
    /\ outcome = "AttributeError"
    /\ pc = "idle"

\* the list of selectors res holds the string that is no registered alias
NamesNoAlias(res) ==
  \E i \in 1..Len(res) : IsStr(res[i]) /\ res[i].str = <<"x","p","u">>

\* C16: a scoped session whose selectors hold a string that is no registered
\* alias fails with KeyError when it builds its list of monitors, before
\* anything is started: no monitor is kept, no sampler process is launched,
\* and every attribute of every monitor, the instances passed in among them,
\* is as it was.
C16_UnknownAliasStartsNothing ==
  [][ (pc = "lookup" /\ pc' # "lookup" /\ NamesNoAlias(resource)) =>
        /\ outcome' = "KeyError"
        /\ pc' = "idle"
        /\ sess' = <<>> /\ idx' = 0
        /\ UNCHANGED <<cls, running, data, ticks, shared_list, stop_queue, process,
                       start_time, prev_time, end_time, orphans>>
    ]_vars

\* C16 witness: the session over an instance passed in and the unknown
\* string has failed; the instance is as its constructor left it.
C16_Witness ==
  /\ pc = "idle"
  /\ outcome = "KeyError"
  /\ calls = env.calls - 4
  /\ \E m \in Monitors : Constructed = {m} /\ stop_queue[m] = "None"
                         /\ process[m] = "None"

\* the monitors of the session in progress
InSession == { sess[i] : i \in 1..Len(sess) }

\* the step is one of monitor a: of its sampler process, of the feeder of its
\* stop queue, or of the controller entering, inside or leaving its start,
\* fetch or stop
StepOf(a) ==
  \/ process'[a] # process[a]
  \/ stop_queue'[a] # stop_queue[a]
  \/ shared_list'[a] # shared_list[a]
  \/ (pc' # pc /\ (cur = a \/ cur' = a))

\* C17: the monitors of a session are independent: a step of one monitor of
\* the session leaves data, ticks, the shared buffer, the stop signal and
\* the running flag of every other monitor of the session unchanged (and its
\* sampler process where it was).
C17_MonitorsIndependent ==
  [][ \A a, b \in InSession :
        (a # b /\ StepOf(a)) =>
          /\ data'[b] = data[b] /\ ticks'[b] = ticks[b]
          /\ shared_list'[b] = shared_list[b]
          /\ stop_queue'[b] = stop_queue[b]
          /\ running'[b] = running[b]
          /\ process'[b] = process[b]
    ]_vars

\* C17 witness: in the exit of a session over two monitors the first has been
\* fetched and stopped while the sampler of the second went on appending,
\* and the controller waits for the second to exit.
C17_Witness ==
  /\ Len(sess) = 2
  /\ sess[1] # sess[2]
  /\ pc = "join" /\ cur = sess[2]
  /\ process[sess[1]] = "exited" /\ ~running[sess[1]]
  /\ Alive(process[sess[2]]) /\ running[sess[2]]
  /\ Len(shared_list[sess[2]]) = 2
  /\ Len(data[sess[1]]) = 2

====
